---- MODULE Spec2Model ----
(***************************************************************************)
(* loom.md: the Tauri command layer (src-tauri/src/lib.rs), the settings   *)
(* store (src-tauri/src/global_config.rs) and the line renderer they call. *)
(*                                                                         *)
(* Five specifications share the module:                                   *)
(*   SpecLine    a UI session feeding lines to render_markdown one by one, *)
(*               each request carrying the previous result's context;      *)
(*   Spec        render_markdown_batch, sequential and rayon paths;        *)
(*   SpecCalls   render_markdown_batch with render_markdown calls running  *)
(*               beside it;                                                *)
(*   SpecDir     read_directory / read_dir_recursive on a directory;       *)
(*   SpecConfig  load_global_config / save_global_config on the app data   *)
(*               directory.                                                *)
(* The renderer module (mod markdown) is modelled from the specification,  *)
(* sections 3 and 4.1.                                                     *)
(***************************************************************************)
EXTENDS Integers, Sequences, FiniteSets, TLC

VARIABLES
    ui_ctx,      \* SpecLine: the context the UI holds for the next line
    last,        \* SpecLine: the latest render step: line facts, contexts, tag
    phase,       \* SpecLine: position on the open/content/close path of the document
    requests,    \* batch: the Vec<RenderRequest> given to the call
    bpc,         \* batch: "idle" | "seq" | "par" | "returned"
    chunks,      \* batch: the contiguous index ranges rayon split the Vec into
    progress,    \* batch: per chunk, how many of its items are rendered
    owner,       \* batch: per chunk, "queued", the thread folding it, or "folded"
    results,     \* batch: the output Vec under construction
    ran_on,      \* batch: per index, the thread that rendered it
    probe,       \* an earlier render_markdown call: <<request, result>> or <<>>
    single,      \* the latest render_markdown call made beside the batch
    fs_kind,     \* SpecDir: what the requested path is on disk
    fs_entries,  \* SpecDir: the directory's entries on disk
    dpc,         \* SpecDir: "idle" | "iter" | "done"
    unread,      \* SpecDir: entries the ReadDir iterator has not yielded yet
    entries,     \* SpecDir: the Vec<FileEntry> being built
    dresult,     \* SpecDir: the Result returned
    attempts,    \* SpecDir: how many times each fallible step was attempted
    dir_exists,  \* SpecConfig: the app data directory exists
    file,        \* SpecConfig: global_config.json: NoFile or its text
    saved,       \* SpecConfig: the config of the latest save attempt and its outcome
    loaded       \* SpecConfig: the outcome of the latest load since the latest save

vars == <<ui_ctx, last, phase, requests, bpc, chunks, progress, owner, results, ran_on, probe, single,
          fs_kind, fs_entries, dpc, unread, entries, dresult, attempts,
          dir_exists, file, saved, loaded>>

lineVars == <<ui_ctx, last, phase>>
batchVars == <<requests, bpc, chunks, progress, owner, results, ran_on, probe, single>>
dirVars == <<fs_kind, fs_entries, dpc, unread, entries, dresult, attempts>>
cfgVars == <<dir_exists, file, saved, loaded>>

(***************************************************************************)
(* Generic helpers                                                         *)
(***************************************************************************)
Range(s) == {s[i] : i \in 1..Len(s)}

RECURSIVE Repeat(_, _)
Repeat(c, n) == IF n = 0 THEN <<>> ELSE <<c>> \o Repeat(c, n - 1)

(***************************************************************************)
(* Context model (spec.md 3, 4.2)                                          *)
(***************************************************************************)
\* The all-closed context.
InitialContext ==
    [fence |-> FALSE, fence_char |-> "", fence_len |-> 0, lang |-> <<>>,
     lists |-> <<>>, quote |-> 0, table |-> FALSE]

(***************************************************************************)
(* Line renderer (spec.md 4.1)                                             *)
(***************************************************************************)
\* The backtick, which a TLA+ string cannot hold.
Backtick == "BACKTICK"

FenceChars == {Backtick, "~"}

RECURSIVE LeadingRun(_, _)
\* Length of the run of character c at the start of s.
LeadingRun(s, c) ==
    IF s # <<>> /\ Head(s) = c THEN 1 + LeadingRun(Tail(s), c) ELSE 0

Drop(s, n) == SubSeq(s, n + 1, Len(s))

TrimStart(s) == Drop(s, LeadingRun(s, " "))

RECURSIVE TrimEnd(_)
TrimEnd(s) ==
    IF s # <<>> /\ s[Len(s)] = " " THEN TrimEnd(SubSeq(s, 1, Len(s) - 1)) ELSE s

Trim(s) == TrimEnd(TrimStart(s))

IsBlank(line) == Trim(line) = <<>>

\* The fence marker a line starts with: [char, len, info], len = 0 when none.
FenceMarker(line) ==
    LET t == TrimStart(line)
        c == IF t # <<>> /\ Head(t) \in FenceChars THEN Head(t) ELSE ""
        n == IF c = "" THEN 0 ELSE LeadingRun(t, c)
    IN  [char |-> c, len |-> n, info |-> IF c = "" THEN <<>> ELSE Trim(Drop(t, n))]

\* A run of at least 3 identical fence characters, then an optional language tag.
IsFenceOpen(line) == FenceMarker(line).len >= 3

\* A bare run of the open fence's character, at least as long as the opening run.
IsFenceClose(line, ctx) ==
    LET m == FenceMarker(line)
    IN  /\ ctx.fence
        /\ m.char = ctx.fence_char
        /\ m.len >= ctx.fence_len
        /\ m.info = <<>>

\* Heading: a run of 1..6 '#' followed by a space.
HeadingLevel(line) ==
    LET n == LeadingRun(line, "#")
    IN  IF n >= 1 /\ n <= 6 /\ Len(line) > n /\ line[n + 1] = " " THEN n ELSE 0

RECURSIVE QuoteDepth(_)
\* Blockquote: leading '>' markers, nested by repetition.
QuoteDepth(s) ==
    LET t == TrimStart(s)
    IN  IF t # <<>> /\ Head(t) = ">" THEN 1 + QuoteDepth(Tail(t)) ELSE 0

RECURSIVE StripQuote(_)
StripQuote(s) ==
    LET t == TrimStart(s)
    IN  IF t # <<>> /\ Head(t) = ">" THEN StripQuote(Tail(t)) ELSE t

\* List marker after the indent: "bullet", "ordered" or "" when the line is no item.
ListMarker(line) ==
    LET t == TrimStart(line)
    IN  IF Len(t) >= 2 /\ t[1] \in {"-", "*", "+"} /\ t[2] = " " THEN "bullet"
        ELSE IF Len(t) >= 3 /\ t[1] \in {"1", "2"} /\ t[2] = "." /\ t[3] = " "
             THEN "ordered"
        ELSE ""

ListContent(line) ==
    LET t == TrimStart(line)
    IN  IF ListMarker(line) = "bullet" THEN Drop(t, 2) ELSE Drop(t, 3)

RECURSIVE PopDeeper(_, _)
\* Pop the list levels indented more than the item.
PopDeeper(stack, indent) ==
    IF stack # <<>> /\ stack[Len(stack)].indent > indent
    THEN PopDeeper(SubSeq(stack, 1, Len(stack) - 1), indent)
    ELSE stack

\* The list stack after an item: compare its indent width with the stack top.
ListTransition(stack, marker, indent) ==
    LET kept == PopDeeper(stack, indent)
        level == [marker |-> marker, indent |-> indent]
    IN  IF kept # <<>> /\ kept[Len(kept)].indent = indent
        THEN SubSeq(kept, 1, Len(kept) - 1) \o <<level>>
        ELSE kept \o <<level>>

IsTableRow(line) ==
    LET t == Trim(line) IN t # <<>> /\ Head(t) = "|"

\* A row of dashes, colons and pipes only: confirms the header row above it.
IsTableSeparator(line) ==
    /\ IsTableRow(line)
    /\ Range(Trim(line)) \subseteq {"|", "-", ":", " "}
    /\ "-" \in Range(line)

\* Faulty variant: the closing line leaves the language tag behind.
FenceClosed_KeepsLang(ctx) ==
    [ctx EXCEPT !.fence = FALSE, !.fence_char = "", !.fence_len = 0]

\* The context after a fence-closing line: the fence fields are cleared.
FenceClosed(ctx) ==
    [ctx EXCEPT !.fence = FALSE, !.fence_char = "", !.fence_len = 0, !.lang = <<>>]

\* Faulty variant: a blank line ends the open fence, as it ends a list.
RenderInFence_BlankCloses(line, ctx) ==
    IF IsFenceClose(line, ctx) \/ IsBlank(line)
    THEN [output |-> [el |-> "fence-end", level |-> 0, text |-> <<>>],
          context |-> FenceClosed(ctx),
          tag |-> "fence-boundary"]
    ELSE [output |-> [el |-> "code", level |-> 0, text |-> line],
          context |-> ctx,
          tag |-> "code"]

\* A line met while a fence is open: the closing marker, or verbatim code.
RenderInFence(line, ctx) ==
    IF IsFenceClose(line, ctx)
    THEN [output |-> [el |-> "fence-end", level |-> 0, text |-> <<>>],
          context |-> FenceClosed(ctx),
          tag |-> "fence-boundary"]
    ELSE [output |-> [el |-> "code", level |-> 0, text |-> line],
          context |-> ctx,
          tag |-> "code"]

\* A line met outside any fence: fence opening, then block-level classification.
RenderOutside(line, ctx) ==
    LET m == FenceMarker(line)
    IN  IF IsFenceOpen(line)
        THEN [output |-> [el |-> "fence-start", level |-> 0, text |-> m.info],
              context |-> [ctx EXCEPT !.fence = TRUE, !.fence_char = m.char,
                                      !.fence_len = m.len, !.lang = m.info],
              tag |-> "fence-boundary"]
        ELSE IF IsBlank(line)
        THEN [output |-> [el |-> "blank", level |-> 0, text |-> <<>>],
              context |-> [ctx EXCEPT !.lists = <<>>, !.quote = 0, !.table = FALSE],
              tag |-> "blank"]
        ELSE IF HeadingLevel(line) > 0
        THEN [output |-> [el |-> "h", level |-> HeadingLevel(line),
                          text |-> Trim(Drop(line, HeadingLevel(line) + 1))],
              context |-> [ctx EXCEPT !.lists = <<>>, !.quote = 0, !.table = FALSE],
              tag |-> "heading"]
        ELSE IF QuoteDepth(line) > 0
        THEN [output |-> [el |-> "blockquote", level |-> QuoteDepth(line),
                          text |-> Trim(StripQuote(line))],
              context |-> [ctx EXCEPT !.quote = QuoteDepth(line), !.lists = <<>>,
                                      !.table = FALSE],
              tag |-> "quote"]
        ELSE IF ListMarker(line) # ""
        THEN LET stack == ListTransition(ctx.lists, ListMarker(line),
                                         LeadingRun(line, " "))
             IN  [output |-> [el |-> "li", level |-> Len(stack),
                              text |-> Trim(ListContent(line))],
                  context |-> [ctx EXCEPT !.lists = stack, !.quote = 0,
                                          !.table = FALSE],
                  tag |-> "list-item"]
        ELSE IF IsTableRow(line)
        THEN [output |-> [el |-> IF ctx.table THEN "td" ELSE "th", level |-> 0,
                          text |-> Trim(line)],
              context |-> [ctx EXCEPT !.table = ctx.table \/ IsTableSeparator(line),
                                      !.lists = <<>>, !.quote = 0],
              tag |-> "table-row"]
        ELSE [output |-> [el |-> "p", level |-> 0, text |-> Trim(line)],
              context |-> [ctx EXCEPT !.table = FALSE],
              tag |-> "paragraph"]

\* Faulty variant: the renderer keeps the context its latest call left (a
\* parser object shared between calls) and renders with it instead of the
\* request's.
render_markdown_line_Stateful(request) ==
    LET kept == IF single = <<>> THEN request.context ELSE single[2].context
    IN  IF kept.fence
        THEN RenderInFence(request.line, kept)
        ELSE RenderOutside(request.line, kept)

\* (line text, incoming context) -> (rendered output, outgoing context, tag).
\* The request's index takes no part.
render_markdown_line(request) ==
    IF request.context.fence
    THEN RenderInFence(request.line, request.context)
    ELSE RenderOutside(request.line, request.context)

(***************************************************************************)
(* Commands of lib.rs: render_markdown                                     *)
(***************************************************************************)
\* #[tauri::command] fn render_markdown: the renderer applied to the request.
render_markdown(request) == render_markdown_line(request)

(***************************************************************************)
(* SpecLine: the UI renders a document line by line through                *)
(* render_markdown, feeding each result's context into the next request    *)
(* (spec.md 2, 3).                                                         *)
(***************************************************************************)
\* Widest indent and longest fence run among the lines the UI sends.
MaxIndent == 1
MaxRun == 4

Markers ==
    {<<>>, <<"-", " ">>, <<">">>, <<">", ">">>, <<"#", " ">>, <<"|">>, <<"|", "-">>}
    \cup {Repeat(c, n) : c \in FenceChars, n \in 1..MaxRun}

Tails == {<<>>, <<"x">>}

\* The lines the UI may send.
Lines == {Repeat(" ", i) \o mk \o t : i \in 0..MaxIndent, mk \in Markers, t \in Tails}

\* What a render step keeps of its line: the syntactic facts, not the renderer's verdict.
LineFacts(line) == [blank |-> IsBlank(line), marker |-> FenceMarker(line)]

NoStep == [rendered |-> FALSE]

NoMarker == [char |-> "", len |-> 0, info |-> <<>>]

\* Where the document stands on the path "fence-opening line, content line,
\* fence-closing line" from its first line on; opener is the opening line's marker.
AtStart == [name |-> "start", opener |-> NoMarker]
OffPath == [name |-> "other", opener |-> NoMarker]

\* A bare run of the opener's character, at least as long as the opener's run.
ClosesOpener(facts, opener) ==
    /\ facts.marker.char = opener.char
    /\ facts.marker.len >= opener.len
    /\ facts.marker.info = <<>>

PhaseAfter(ph, facts) ==
    IF ph.name = "start" /\ facts.marker.len >= 3
    THEN [name |-> "opened", opener |-> facts.marker]
    ELSE IF ph.name = "opened" /\ ~ClosesOpener(facts, ph.opener)
    THEN [name |-> "content", opener |-> ph.opener]
    ELSE IF ph.name = "content" /\ ClosesOpener(facts, ph.opener)
    THEN [name |-> "closed", opener |-> ph.opener]
    ELSE OffPath

\* The UI sends one line with the context it holds and stores the result's context.
Feed(line) ==
    LET request == [index |-> 0, line |-> line, context |-> ui_ctx]
        result == render_markdown(request)
    IN  /\ ui_ctx' = result.context
        /\ last' = [rendered |-> TRUE, facts |-> LineFacts(line), in |-> request.context,
                    out |-> result.context, tag |-> result.tag,
                    verbatim |-> (result.output.text = line)]
        /\ phase' = PhaseAfter(phase, LineFacts(line))
        /\ UNCHANGED <<batchVars, dirVars, cfgVars>>

\* The UI opens another document: the context starts over.
NewDocument ==
    /\ last # NoStep
    /\ ui_ctx' = InitialContext
    /\ last' = NoStep
    /\ phase' = AtStart
    /\ UNCHANGED <<batchVars, dirVars, cfgVars>>

NextLine == (\E line \in Lines : Feed(line)) \/ NewDocument

(***************************************************************************)
(* Commands of lib.rs: render_markdown_batch                               *)
(***************************************************************************)
Threshold == 50

\* Sizes of the batches the UI sends: 0 .. Threshold + MaxOver.
MaxOver == 1

\* How many times rayon halves the Vec before the pieces are folded.
MaxSplitDepth == 1

\* A slot of the output Vec that collect has allocated and not written yet.
Uninit == [tag |-> "uninit"]

\* Faulty variant: the comparison is >= .
UsesPool_AtLeast(n) == n >= Threshold

\* if requests.len() > 50: the parallel iterator, else the sequential one.
UsesPool(n) == n > Threshold

RECURSIVE SplitRange(_, _, _)
\* rayon's bridge over a Vec: split_at(len / 2), recursively, down to depth 0.
SplitRange(lo, hi, depth) ==
    IF depth = 0 \/ hi - lo < 1
    THEN <<[lo |-> lo, hi |-> hi]>>
    ELSE LET mid == lo + (hi - lo + 1) \div 2
         IN  SplitRange(lo, mid - 1, depth - 1) \o SplitRange(mid, hi, depth - 1)

\* .map(render_markdown_line) applied to item i of the input Vec.
MapItem(reqs, i) == render_markdown_line(reqs[i])

\* Faulty variant: items land in the order the threads finish them.
CollectInto_Arrival(res, i, r) ==
    LET free == {j \in DOMAIN res : res[j] = Uninit}
        slot == CHOOSE j \in free : \A h \in free : j <= h
    IN  [res EXCEPT ![slot] = r]

\* Indexed collect: the item rendered from input position i is written to
\* output position i.
CollectInto(res, i, r) == [res EXCEPT ![i] = r]

\* Faulty variant: each rendered item is put in front of the earlier ones.
PushNext_Prepend(res, reqs) == <<MapItem(reqs, Len(res) + 1)>> \o res

\* Sequential collect: into_iter yields the items front to back and each
\* rendered item is pushed.
PushNext(res, reqs) == Append(res, MapItem(reqs, Len(res) + 1))

ChunkLen(c) == c.hi - c.lo + 1

ChunkDone(k) == owner[k] = "folded"

(***************************************************************************)
(* The UI's batches: a document repeated to the batch's length, each       *)
(* request carrying the context its predecessor produced (spec.md 3), or   *)
(* a stale all-closed context.                                             *)
(***************************************************************************)
DocFence ==
    << <<"#", " ", "x">>, <<Backtick, Backtick, Backtick, "x">>, <<"x">>, <<Backtick, Backtick, Backtick>>,
       <<>>, <<"-", " ", "x">>, <<" ", " ", "-", " ", "x">> >>

DocTilde ==
    << <<"x">>, <<"~", "~", "~">>, <<Backtick, Backtick, Backtick>>, <<"~", "~", "~", "~">>,
       <<">", " ", "x">>, <<"1", ".", " ", "x">>, <<"|", "x">> >>

Docs == {DocFence, DocTilde}

DocLine(doc, i) == doc[((i - 1) % Len(doc)) + 1]

RECURSIVE BuildRequests(_, _, _)
BuildRequests(doc, n, threaded) ==
    IF n = 0 THEN <<>>
    ELSE LET before == BuildRequests(doc, n - 1, threaded)
             ctx == IF n = 1 \/ ~threaded THEN InitialContext
                    ELSE render_markdown_line(before[n - 1]).context
         IN  Append(before, [index |-> n - 1, line |-> DocLine(doc, n), context |-> ctx])

\* The batches the UI sends, as (document, size, contexts threaded or stale).
BatchKinds ==
    {<<doc, n, TRUE>> : doc \in Docs, n \in 0..(Threshold + MaxOver)}
    \cup {<<DocFence, n, FALSE>> : n \in 0..Threshold}

\* The batches sent while render_markdown calls are made beside them.
CallBatchKinds == {<<DocFence, n, TRUE>> : n \in 0..(Threshold + MaxOver)}

\* Requests the UI sends through render_markdown while a batch may be running.
\* The second and third line of DocFence: the fence opener and the line inside.
SingleRequests ==
    {BuildRequests(DocFence, 2, TRUE)[2], BuildRequests(DocFence, 3, TRUE)[3]}

\* What a request is to the renderer: its line and its incoming context.
Input(request) == [line |-> request.line, context |-> request.context]

\* The threads of rayon's global pool.
Threads == {"pool-1", "pool-2"}

\* The piece thread t is folding, as a set (empty when t is idle).
Folding(t) == {k \in 1..Len(chunks) : owner[k] = t}

\* render_markdown_batch is invoked: the path is chosen by the batch's size.
BatchCall(kind) ==
    /\ bpc = "idle"
    /\ requests' = BuildRequests(kind[1], kind[2], kind[3])
    /\ IF UsesPool(Len(requests'))
       THEN /\ bpc' = "par"
            /\ \E d \in 0..MaxSplitDepth : chunks' = SplitRange(1, Len(requests'), d)
            /\ progress' = [k \in 1..Len(chunks') |-> 0]
            /\ owner' = [k \in 1..Len(chunks') |-> "queued"]
            /\ results' = [i \in 1..Len(requests') |-> Uninit]
            /\ ran_on' = [i \in 1..Len(requests') |-> "none"]
       ELSE /\ bpc' = "seq"
            /\ chunks' = <<>>
            /\ progress' = <<>>
            /\ owner' = <<>>
            /\ results' = <<>>
            /\ ran_on' = <<>>
    /\ UNCHANGED <<probe, single, lineVars, dirVars, cfgVars>>

\* Sequential path: the next item is rendered and pushed, on the calling thread.
SeqStep ==
    /\ bpc = "seq"
    /\ Len(results) < Len(requests)
    /\ results' = PushNext(results, requests)
    /\ ran_on' = Append(ran_on, "caller")
    /\ UNCHANGED <<requests, bpc, chunks, progress, owner, probe, single,
                   lineVars, dirVars, cfgVars>>

\* Parallel path: an idle pool thread takes (pops or steals) a queued piece.
ParTake(t, k) ==
    /\ bpc = "par"
    /\ Folding(t) = {}
    /\ owner[k] = "queued"
    /\ owner' = [owner EXCEPT ![k] = t]
    /\ UNCHANGED <<requests, bpc, chunks, progress, results, ran_on, probe, single,
                   lineVars, dirVars, cfgVars>>

\* Parallel path: a pool thread renders the next item of the piece it folds and
\* lets go of the piece after its last item.
ParStep(t, k) ==
    /\ bpc = "par"
    /\ owner[k] = t
    /\ LET i == chunks[k].lo + progress[k]
       IN  /\ results' = CollectInto(results, i, MapItem(requests, i))
           /\ ran_on' = [ran_on EXCEPT ![i] = "pool"]
    /\ progress' = [progress EXCEPT ![k] = @ + 1]
    /\ owner' = [owner EXCEPT ![k] = IF progress'[k] = ChunkLen(chunks[k])
                                     THEN "folded" ELSE t]
    /\ UNCHANGED <<requests, bpc, chunks, probe, single, lineVars, dirVars, cfgVars>>

\* The call returns: the sequential iterator is exhausted, or every piece of
\* the parallel job has finished (the caller blocks on the job's latch).
BatchReturn ==
    /\ \/ bpc = "seq" /\ Len(results) = Len(requests)
       \/ bpc = "par" /\ \A k \in 1..Len(chunks) : ChunkDone(k)
    /\ bpc' = "returned"
    /\ UNCHANGED <<requests, chunks, progress, owner, results, ran_on, probe, single,
                   lineVars, dirVars, cfgVars>>

\* The UI consumes the results; the engine keeps nothing.
BatchConsumed ==
    /\ bpc = "returned"
    /\ bpc' = "idle"
    /\ requests' = <<>>
    /\ chunks' = <<>>
    /\ progress' = <<>>
    /\ owner' = <<>>
    /\ results' = <<>>
    /\ ran_on' = <<>>
    /\ UNCHANGED <<probe, single, lineVars, dirVars, cfgVars>>

\* render_markdown is invoked (possibly while a batch is being rendered).
RenderSingle(request) ==
    LET call == <<request, render_markdown(request)>>
    IN  /\ single' = call
        /\ probe' = IF probe = <<>> THEN call ELSE probe
        /\ UNCHANGED <<requests, bpc, chunks, progress, owner, results, ran_on,
                       lineVars, dirVars, cfgVars>>

\* The steps of a batch call in progress.
BatchSteps ==
    \/ SeqStep
    \/ \E t \in Threads, k \in 1..Len(chunks) : ParTake(t, k)
    \/ \E t \in Threads, k \in 1..Len(chunks) : ParStep(t, k)
    \/ BatchReturn
    \/ BatchConsumed

\* Batch calls alone.
NextBatch ==
    \/ \E kind \in BatchKinds : BatchCall(kind)
    \/ BatchSteps

\* Batch calls over one document, with render_markdown calls at any moment.
NextCalls ==
    \/ \E kind \in CallBatchKinds : BatchCall(kind)
    \/ BatchSteps
    \/ \E request \in SingleRequests : RenderSingle(request)

(***************************************************************************)
(* Commands of lib.rs: read_directory / read_dir_recursive                 *)
(* Names are sequences of ASCII codes: '.' 46, '/' 47, 'A'-'Z' 65-90,      *)
(* 'a'-'z' 97-122.                                                         *)
(***************************************************************************)
MaxEntries == 3

Slash == <<47>>

\* The requested path.
DirPath == <<47, 119>>

NameGit == <<46, 103, 105, 116>>
NameEnv == <<46, 101, 110, 118>>
NameReadme == <<82, 69, 65, 68, 77, 69, 46, 109, 100>>
NameSrc == <<115, 114, 99>>
NameLowerA == <<97>>
NameUpperA == <<65>>
NameUpperB == <<66>>
NameNotes == <<95, 110>>

\* What a directory may hold: name, kind, and (for a directory) what it holds in turn.
DiskPool ==
    {[name |-> NameGit, is_dir |-> TRUE, holds |-> {<<99>>}],
     [name |-> NameEnv, is_dir |-> FALSE, holds |-> {}],
     [name |-> NameReadme, is_dir |-> FALSE, holds |-> {}],
     [name |-> NameSrc, is_dir |-> TRUE, holds |-> {<<109>>, <<46, 120>>}],
     [name |-> NameLowerA, is_dir |-> FALSE, holds |-> {}],
     [name |-> NameUpperA, is_dir |-> FALSE, holds |-> {}],
     [name |-> NameUpperB, is_dir |-> TRUE, holds |-> {}],
     [name |-> NameNotes, is_dir |-> TRUE, holds |-> {<<97>>}]}

Directories == {d \in SUBSET DiskPool : Cardinality(d) <= MaxEntries}

Ok(v) == [ok |-> TRUE, value |-> v]
Err(msg) == [ok |-> FALSE, error |-> msg]

Some(v) == [some |-> TRUE, value |-> v]
None == [some |-> FALSE]

\* PathBuf::exists / PathBuf::is_dir on the requested path.
PathExists(kind) == kind # "missing"
PathIsDir(kind) == kind = "dir"

\* name.starts_with('.')
IsHidden(name) == name # <<>> /\ Head(name) = 46

\* char::to_lowercase on ASCII.
LowerChar(c) == IF c >= 65 /\ c <= 90 THEN c + 32 ELSE c

\* String::to_lowercase
to_lowercase(name) == [i \in 1..Len(name) |-> LowerChar(name[i])]

RECURSIVE CmpStr(_, _)
\* Ord for String: lexicographic by bytes.
CmpStr(a, b) ==
    IF a = <<>> /\ b = <<>> THEN "Equal"
    ELSE IF a = <<>> THEN "Less"
    ELSE IF b = <<>> THEN "Greater"
    ELSE IF Head(a) < Head(b) THEN "Less"
    ELSE IF Head(a) > Head(b) THEN "Greater"
    ELSE CmpStr(Tail(a), Tail(b))

\* Faulty variant: the names are compared as they are, case and all.
CompareEntries_CaseSensitive(a, b) ==
    IF a.is_dir /\ ~b.is_dir THEN "Less"
    ELSE IF ~a.is_dir /\ b.is_dir THEN "Greater"
    ELSE CmpStr(a.name, b.name)

\* The closure given to sort_by: directories first, then lowercase names.
CompareEntries(a, b) ==
    IF a.is_dir /\ ~b.is_dir THEN "Less"
    ELSE IF ~a.is_dir /\ b.is_dir THEN "Greater"
    ELSE CmpStr(to_lowercase(a.name), to_lowercase(b.name))

RECURSIVE InsertStable(_, _)
\* x goes behind every element that does not compare Greater than it.
InsertStable(sorted, x) ==
    IF sorted = <<>> THEN <<x>>
    ELSE IF CompareEntries(sorted[Len(sorted)], x) = "Greater"
    THEN Append(InsertStable(SubSeq(sorted, 1, Len(sorted) - 1), x), sorted[Len(sorted)])
    ELSE Append(sorted, x)

RECURSIVE SortEntries(_)
\* Vec::sort_by: a stable sort by the comparator.
SortEntries(v) ==
    IF v = <<>> THEN <<>>
    ELSE InsertStable(SortEntries(SubSeq(v, 1, Len(v) - 1)), v[Len(v)])

\* Faulty variant: a directory's entries are listed into children.
ChildrenOf_Recursive(e) ==
    IF e.is_dir
    THEN Some([i \in 1..Cardinality(e.holds) |-> "child"])
    ELSE None

\* children: Some(empty) for a directory, None for a file; the disk is not read.
ChildrenOf(e) == IF e.is_dir THEN Some(<<>>) ELSE None

\* The FileEntry pushed for a directory entry.
MakeEntry(e) ==
    [name |-> e.name, path |-> DirPath \o Slash \o e.name, is_dir |-> e.is_dir,
     children |-> ChildrenOf(e)]

\* The loop body: hidden names are skipped, the others pushed.
PushEntry(v, e) == IF IsHidden(e.name) THEN v ELSE Append(v, MakeEntry(e))

\* How often each fallible step ran in the current call, and how many failed.
NoAttempts == [read_dir |-> 0, next |-> 0, failed |-> 0]

\* read_directory is invoked: the two checks, then fs::read_dir of read_dir_recursive.
ReadDirectory ==
    /\ dpc = "idle"
    /\ entries' = <<>>
    /\ IF ~PathExists(fs_kind)
       THEN /\ dresult' = Err("Directory does not exist")
            /\ dpc' = "done"
            /\ unread' = {}
            /\ attempts' = NoAttempts
       ELSE IF ~PathIsDir(fs_kind)
       THEN /\ dresult' = Err("Path is not a directory")
            /\ dpc' = "done"
            /\ unread' = {}
            /\ attempts' = NoAttempts
       ELSE \/ /\ dpc' = "iter"
               /\ unread' = fs_entries
               /\ attempts' = [NoAttempts EXCEPT !.read_dir = 1]
               /\ UNCHANGED dresult
            \/ /\ dresult' = Err("Failed to read directory")
               /\ dpc' = "done"
               /\ unread' = {}
               /\ attempts' = [NoAttempts EXCEPT !.read_dir = 1, !.failed = 1]
    /\ UNCHANGED <<fs_kind, fs_entries, lineVars, batchVars, cfgVars>>

\* The iterator yields an entry (in the order the OS gives) and the body runs.
NextEntry(e) ==
    /\ dpc = "iter"
    /\ e \in unread
    /\ unread' = unread \ {e}
    /\ entries' = PushEntry(entries, e)
    /\ attempts' = [attempts EXCEPT !.next = @ + 1]
    /\ UNCHANGED <<fs_kind, fs_entries, dpc, dresult, lineVars, batchVars, cfgVars>>

\* Faulty variant: an entry that cannot be read is left out and the loop goes on.
NextEntryFails_Skipped ==
    /\ dpc = "iter"
    /\ \E e \in unread : unread' = unread \ {e}
    /\ attempts' = [attempts EXCEPT !.next = @ + 1, !.failed = @ + 1]
    /\ UNCHANGED <<fs_kind, fs_entries, dpc, dresult, entries, lineVars, batchVars, cfgVars>>

\* The iterator yields an error: the ? operator returns it from the call.
NextEntryFails ==
    /\ dpc = "iter"
    /\ unread # {}
    /\ dresult' = Err("Failed to read entry")
    /\ dpc' = "done"
    /\ attempts' = [attempts EXCEPT !.next = @ + 1, !.failed = @ + 1]
    /\ UNCHANGED <<fs_kind, fs_entries, unread, entries, lineVars, batchVars, cfgVars>>

\* The iterator is exhausted: the entries are sorted and returned.
ReadDirReturn ==
    /\ dpc = "iter"
    /\ unread = {}
    /\ entries' = SortEntries(entries)
    /\ dresult' = Ok(entries')
    /\ dpc' = "done"
    /\ UNCHANGED <<fs_kind, fs_entries, unread, attempts, lineVars, batchVars, cfgVars>>

\* The UI takes the result; a later call starts afresh.
DirConsumed ==
    /\ dpc = "done"
    /\ dpc' = "idle"
    /\ entries' = <<>>
    /\ unread' = {}
    /\ dresult' = Err("")
    /\ attempts' = NoAttempts
    /\ UNCHANGED <<fs_kind, fs_entries, lineVars, batchVars, cfgVars>>

NextDir ==
    \/ ReadDirectory
    \/ \E e \in DiskPool : NextEntry(e)
    \/ NextEntryFails
    \/ ReadDirReturn
    \/ DirConsumed

(***************************************************************************)
(* global_config.rs: the settings store                                    *)
(***************************************************************************)
MaxFolderLen == 2

Quote == "\""
Backslash == "\\"

PathChars == {"a", Quote, Backslash}

RECURSIVE SeqsUpTo(_, _)
SeqsUpTo(S, n) ==
    IF n = 0 THEN {<<>>}
    ELSE LET shorter == SeqsUpTo(S, n - 1)
         IN  shorter \cup {Append(t, c) : t \in {u \in shorter : Len(u) = n - 1}, c \in S}

Folders == SeqsUpTo(PathChars, MaxFolderLen)

\* GlobalConfig values.
Configs ==
    {[last_opened_folder |-> None]}
    \cup {[last_opened_folder |-> Some(f)] : f \in Folders}

\* impl Default for GlobalConfig
DefaultConfig == [last_opened_folder |-> None]

KeyToken == "\"last_opened_folder\""

RECURSIVE EscapeJson(_)
\* serde_json writes '"' as \" and '\' as \\ inside a string.
EscapeJson(str) ==
    IF str = <<>> THEN <<>>
    ELSE (IF Head(str) \in {Quote, Backslash} THEN <<Backslash, Head(str)>>
          ELSE <<Head(str)>>) \o EscapeJson(Tail(str))

\* serde_json::to_string_pretty(config): the document's tokens (layout left out).
to_string_pretty(config) ==
    <<"{", KeyToken, ":">>
    \o (IF config.last_opened_folder.some
        THEN <<Quote>> \o EscapeJson(config.last_opened_folder.value) \o <<Quote>>
        ELSE <<"null">>)
    \o <<"}">>

RECURSIVE ParseStringBody(_, _)
\* The characters after an opening quote: up to the closing quote, escapes undone.
\* [ok, value, rest]
ParseStringBody(text, acc) ==
    IF text = <<>> THEN [ok |-> FALSE, value |-> acc, rest |-> <<>>]
    ELSE IF Head(text) = Quote THEN [ok |-> TRUE, value |-> acc, rest |-> Tail(text)]
    ELSE IF Head(text) = Backslash
    THEN IF Len(text) >= 2 /\ text[2] \in {Quote, Backslash}
         THEN ParseStringBody(Tail(Tail(text)), Append(acc, text[2]))
         ELSE [ok |-> FALSE, value |-> acc, rest |-> <<>>]
    ELSE IF Head(text) \in {"{", "}", ":", "null", KeyToken}
    THEN [ok |-> FALSE, value |-> acc, rest |-> <<>>]
    ELSE ParseStringBody(Tail(text), Append(acc, Head(text)))

\* serde_json::from_str::<GlobalConfig>: #[serde(default)] makes the key optional.
from_str(text) ==
    IF Len(text) < 2 \/ Head(text) # "{" \/ text[Len(text)] # "}"
    THEN Err("Failed to parse global config file")
    ELSE LET body == SubSeq(text, 2, Len(text) - 1)
         IN  IF body = <<>> THEN Ok(DefaultConfig)
             ELSE IF Len(body) < 3 \/ body[1] # KeyToken \/ body[2] # ":"
             THEN Err("Failed to parse global config file")
             ELSE LET v == SubSeq(body, 3, Len(body))
                      str == ParseStringBody(Tail(v), <<>>)
                  IN  IF v = <<"null">> THEN Ok([last_opened_folder |-> None])
                      ELSE IF Head(v) = Quote /\ str.ok /\ str.rest = <<>>
                      THEN Ok([last_opened_folder |-> Some(str.value)])
                      ELSE Err("Failed to parse global config file")

NoFile == [exists |-> FALSE]
FileWith(text) == [exists |-> TRUE, text |-> text]

\* What the config file may hold when the application starts.
StartFiles ==
    {NoFile, FileWith(<<"{", "}">>), FileWith(<<"{", KeyToken, ":">>), FileWith(<<>>)}
    \cup {FileWith(to_string_pretty(c)) : c \in Configs}

\* The faults the OS may raise in one call.
Faults == {"none", "app_data_dir", "create_dir_all", "read", "write"}

\* get_global_config_path: Ok, or the error of the step that failed.
\* The directory is created when it is missing.
ConfigPathResult(fault, exists) ==
    IF fault = "app_data_dir" THEN Err("Failed to get app data directory")
    ELSE IF ~exists /\ fault = "create_dir_all"
    THEN Err("Failed to create app data directory")
    ELSE Ok(<<"app_data_dir", "global_config.json">>)

DirAfterPath(fault, exists) ==
    exists \/ ConfigPathResult(fault, exists).ok

\* Faulty variant: the file is never read; the default is returned.
LoadFrom_IgnoresFile(f, fault) == Ok(DefaultConfig)

\* load_global_config after the path is known.
LoadFrom(f, fault) ==
    IF ~f.exists THEN Ok(DefaultConfig)
    ELSE IF fault = "read" THEN Err("Failed to read global config file")
    ELSE from_str(f.text)

\* save_global_config after the path is known: the Result and the file left behind.
\* A failed fs::write leaves the old file or a truncated one.
SaveTo(f, config, fault) ==
    IF fault = "write"
    THEN {[result |-> Err("Failed to write global config file"), file |-> g] :
            g \in {f, FileWith(<<>>)}}
    ELSE {[result |-> Ok(<<>>), file |-> FileWith(to_string_pretty(config))]}

NoSave == [attempted |-> FALSE, ok |-> FALSE, config |-> DefaultConfig]
NoLoad == [called |-> FALSE]

\* load_global_config is invoked.
Load(fault) ==
    LET path == ConfigPathResult(fault, dir_exists)
    IN  /\ fault # "write"
        /\ dir_exists' = DirAfterPath(fault, dir_exists)
        /\ loaded' = [called |-> TRUE, fault |-> fault, file_existed |-> file.exists,
                      result |-> IF path.ok THEN LoadFrom(file, fault) ELSE path]
        /\ UNCHANGED <<file, saved, lineVars, batchVars, dirVars>>

\* save_global_config is invoked.
Save(config, fault) ==
    LET path == ConfigPathResult(fault, dir_exists)
    IN  /\ fault # "read"
        /\ dir_exists' = DirAfterPath(fault, dir_exists)
        /\ IF path.ok
           THEN \E out \in SaveTo(file, config, fault) :
                    /\ file' = out.file
                    /\ saved' = [attempted |-> TRUE, ok |-> out.result.ok,
                                 config |-> config]
           ELSE /\ file' = file
                /\ saved' = [attempted |-> TRUE, ok |-> FALSE, config |-> config]
        /\ loaded' = NoLoad
        /\ UNCHANGED <<lineVars, batchVars, dirVars>>

NextConfig ==
    \/ \E fault \in Faults : Load(fault)
    \/ \E config \in Configs, fault \in Faults : Save(config, fault)

(***************************************************************************)
(* Initial states and specifications                                       *)
(***************************************************************************)
LineQuiet ==
    /\ ui_ctx = InitialContext
    /\ last = NoStep
    /\ phase = AtStart

BatchQuiet ==
    /\ requests = <<>>
    /\ bpc = "idle"
    /\ chunks = <<>>
    /\ progress = <<>>
    /\ owner = <<>>
    /\ results = <<>>
    /\ ran_on = <<>>
    /\ probe = <<>>
    /\ single = <<>>

DirQuiet ==
    /\ dpc = "idle"
    /\ unread = {}
    /\ entries = <<>>
    /\ dresult = Err("")
    /\ attempts = NoAttempts

ConfigQuiet ==
    /\ saved = NoSave
    /\ loaded = NoLoad

NoDisk ==
    /\ fs_kind = "missing"
    /\ fs_entries = {}

NoSettings ==
    /\ dir_exists = FALSE
    /\ file = NoFile

Init == LineQuiet /\ BatchQuiet /\ DirQuiet /\ ConfigQuiet /\ NoDisk /\ NoSettings

InitDir ==
    /\ LineQuiet /\ BatchQuiet /\ DirQuiet /\ ConfigQuiet /\ NoSettings
    /\ fs_kind \in {"missing", "file", "dir"}
    /\ fs_entries \in Directories
    /\ fs_kind # "dir" => fs_entries = {}

InitConfig ==
    /\ LineQuiet /\ BatchQuiet /\ DirQuiet /\ ConfigQuiet /\ NoDisk
    /\ dir_exists \in BOOLEAN
    /\ file \in StartFiles
    /\ file.exists => dir_exists

Spec == Init /\ [][NextBatch]_vars

SpecCalls == Init /\ [][NextCalls]_vars

SpecLine == Init /\ [][NextLine]_vars

SpecDir == InitDir /\ [][NextDir]_vars

SpecConfig == InitConfig /\ [][NextConfig]_vars

(***************************************************************************)
(* Properties                                                              *)
(***************************************************************************)
\* Item i of the batch has been rendered on the parallel path.
Rendered(i) ==
    \E k \in 1..Len(chunks) : chunks[k].lo <= i /\ i < chunks[k].lo + progress[k]

\* The call went to the worker pool.
OnPool == chunks # <<>>

\* C1: when render_markdown_batch returns, it returns exactly one result per
\* request and results[i] is what render_markdown returns for requests[i]
\* alone, on the sequential and on the parallel path, for batches of 0 to
\* Threshold + MaxOver requests.
C1_BatchEqualsSingleCalls ==
    bpc = "returned" =>
        /\ Len(results) = Len(requests)
        /\ \A i \in 1..Len(requests) : results[i] = render_markdown(requests[i])

\* C1 witness: a batch of 51 requests (parallel path) has returned.
C1_Witness ==
    /\ bpc = "returned"
    /\ Len(requests) = 51
    /\ \E i \in 1..Len(results) : results[i].tag = "code"

\* C2: on the parallel path, in every interleaving of the pool threads, every
\* item rendered so far sits at the index of its request, every other slot is
\* still unwritten (nothing lost, duplicated or misplaced), and the call has
\* returned only if every item is rendered.
C2_ParallelKeepsOrder ==
    (bpc \in {"par", "returned"} /\ OnPool) =>
        /\ DOMAIN results = 1..Len(requests)
        /\ \A i \in 1..Len(requests) :
              IF Rendered(i)
              THEN results[i] = render_markdown_line(requests[i])
              ELSE results[i] = Uninit
        /\ bpc = "returned" => \A i \in 1..Len(requests) : Rendered(i)

\* C2 witness: the threads finish out of order: the last item is rendered
\* while the first item's half still has unrendered items.
C2_Witness ==
    /\ bpc = "par"
    /\ Len(chunks) >= 2
    /\ Rendered(Len(requests))
    /\ ~Rendered(chunks[1].hi)
    /\ Rendered(1)

\* C3: from the initial context, with each result's context fed to the next
\* request, after a fence-opening line a line that is not the closing marker
\* is verbatim code with the fence still open, and a closing marker after it
\* is a fence boundary that closes the fence and leaves the initial context.
C3_FenceRoundTrip ==
    /\ phase.name = "content" =>
          /\ last.tag = "code"
          /\ last.verbatim
          /\ last.in.fence /\ last.out.fence
          /\ ui_ctx.fence
    /\ phase.name = "closed" =>
          /\ last.tag = "fence-boundary"
          /\ last.in.fence /\ ~last.out.fence
          /\ ui_ctx = InitialContext

\* C3 witness: open with a language tag, one content line, close: all rendered.
C3_Witness ==
    /\ phase.name = "closed"
    /\ phase.opener.info # <<>>
    /\ last.rendered

C5_BlankKeepsFence ==
    (last.rendered /\ last.facts.blank) =>
        /\ last.out.fence = last.in.fence
        /\ last.out.lang = last.in.lang

\* C5 witness: a blank line rendered inside an open fence that has a language.
C5_Witness ==
    /\ last.rendered
    /\ last.facts.blank
    /\ last.in.fence
    /\ last.in.lang # <<>>

\* The entries of the directory whose name does not start with a dot.
Visible == {e \in fs_entries : Head(e.name) # 46}

\* C6: a successful read_directory returns exactly the visible entries, each
\* once, with its kind and path, every directory before every file and, within
\* each kind, in the order of the lowercased names.
C6_ListingSorted ==
    (dpc = "done" /\ dresult.ok) =>
        LET v == dresult.value
        IN  /\ Len(v) = Cardinality(Visible)
            /\ {[name |-> v[i].name, is_dir |-> v[i].is_dir] : i \in 1..Len(v)}
                 = {[name |-> e.name, is_dir |-> e.is_dir] : e \in Visible}
            /\ \A i \in 1..Len(v) : v[i].path = DirPath \o Slash \o v[i].name
            /\ \A i, j \in 1..Len(v) :
                  i < j =>
                      /\ v[j].is_dir => v[i].is_dir
                      /\ v[i].is_dir = v[j].is_dir =>
                            CmpStr(to_lowercase(v[i].name), to_lowercase(v[j].name))
                                # "Greater"

\* C6 witness: the directory holds .git, README.md and src, and the listing is
\* src, README.md.
C6_Witness ==
    /\ dpc = "done"
    /\ dresult.ok
    /\ {e.name : e \in fs_entries} = {NameGit, NameReadme, NameSrc}
    /\ Len(dresult.value) = 2
    /\ dresult.value[1].name = NameSrc
    /\ dresult.value[2].name = NameReadme

\* C7: a load that meets no I/O fault returns the default config (no last
\* opened folder) when no config file exists, and the config of the latest
\* save when that save succeeded; and whatever faults occur, a load that
\* returns a config never returns another one than these.
C7_LoadReturnsLatestSave ==
    loaded.called =>
        /\ (loaded.fault = "none" /\ ~loaded.file_existed) => loaded.result.ok
        /\ (loaded.fault = "none" /\ saved.attempted /\ saved.ok) => loaded.result.ok
        /\ (loaded.result.ok /\ ~loaded.file_existed) =>
              loaded.result = Ok([last_opened_folder |-> None])
        /\ (loaded.result.ok /\ saved.attempted /\ saved.ok) =>
              loaded.result = Ok(saved.config)
        /\ (saved.attempted /\ saved.ok) => loaded.file_existed

\* C7 witness: a folder holding a backslash and a quote was saved and loaded.
C7_Witness ==
    /\ loaded.called
    /\ loaded.fault = "none"
    /\ saved.ok
    /\ saved.config.last_opened_folder = Some(<<Backslash, Quote>>)

\* C8: the pool is used exactly for batches of more than 50 requests; a batch
\* of at most 50 is rendered on the caller's thread, front to back; a larger
\* one is rendered by pool threads only.
C8_ThresholdChoosesPath ==
    bpc # "idle" =>
        /\ OnPool <=> Len(requests) > 50
        /\ ~OnPool =>
              /\ bpc \in {"seq", "returned"}
              /\ Len(results) <= Len(requests)
              /\ \A i \in 1..Len(results) :
                    /\ results[i] = render_markdown_line(requests[i])
                    /\ ran_on[i] = "caller"
        /\ OnPool =>
              \A i \in 1..Len(requests) :
                  ran_on[i] = IF Rendered(i) THEN "pool" ELSE "none"

\* C8 witness: a batch of exactly 50 requests has returned from the
\* sequential path.
C8_Witness ==
    /\ bpc = "returned"
    /\ Len(requests) = 50
    /\ ~OnPool
    /\ Len(ran_on) = 50

\* C9: a finished read_directory call returns "Directory does not exist" for
\* a missing path and "Path is not a directory" for a file; once a step has
\* failed the result is an error (which carries no entries), a listing is
\* returned only when every entry was read, and no step runs again after a
\* failure.
C9_FailuresAreErrors ==
    dpc = "done" =>
        /\ fs_kind = "missing" => dresult = Err("Directory does not exist")
        /\ fs_kind = "file" => dresult = Err("Path is not a directory")
        /\ attempts.failed > 0 =>
              dresult \in {Err("Failed to read directory"), Err("Failed to read entry")}
        /\ dresult.ok =>
              /\ attempts.failed = 0
              /\ attempts.next = Cardinality(fs_entries)
        /\ attempts.read_dir <= 1
        /\ attempts.failed <= 1
        /\ attempts.next <= Cardinality(fs_entries)

\* C9 witness: an entry failed after another had been pushed.
C9_Witness ==
    /\ dpc = "done"
    /\ attempts.failed = 1
    /\ entries # <<>>
    /\ ~dresult.ok

====
